---- MODULE Spec2Model ----
(***************************************************************************)
(* PDF Chapter Chunker (src/pdf_chapter_chunker.py).                       *)
(*                                                                         *)
(* Three specifications over one set of variables:                         *)
(*   Spec     main(), split_by_chapters, split_by_pages and                *)
(*            extract_toc_from_pdf: one run of the command line tool.      *)
(*   SpecToc  extract_toc_from_text, line by line, on character level      *)
(*            text: the pattern loop, the de-duplication and the sort.     *)
(*   SpecSan  sanitize_filename on character level titles.                 *)
(*                                                                         *)
(* A Python str is a sequence of one-character strings; a text that was    *)
(* split at "\n" is a sequence of such lines.                              *)
(***************************************************************************)
EXTENDS Integers, Sequences, FiniteSets

VARIABLES
    \* ---- extract_toc_from_text (SpecToc)
    tpc,        \* "idle" | "scan" | "done"
    tText,      \* text.split('\n'): the raw lines
    tPos,       \* number of lines the for loop has consumed
    tEntries,   \* toc_entries
    tLast,      \* what the pattern loop did on the line consumed last
    tResult,    \* the returned list
    \* ---- sanitize_filename (SpecSan)
    spc,        \* "idle" | "call" | "done"
    sTitle,     \* title
    sMaxLen,    \* max_length
    sResult,    \* the returned str
    \* ---- main (Spec)
    pc,         \* position of the run
    args,       \* parsed command line and the file system it meets
    totalPages, \* total_pages
    outputDir,  \* output_dir, a sequence of path components
    tocFound,   \* toc_found of extract_toc_from_pdf
    toc,        \* toc_entries of split_by_chapters
    chunkSize,  \* chunk_size of split_by_pages
    numChunks,  \* num_chunks of split_by_pages
    loopIdx,    \* i of split_by_chapters / chunk_num of split_by_pages
    attempts,   \* one record per chunk whose PdfWriter was created
    created,    \* chunks_created
    fellBack,   \* split_by_chapters returned split_by_pages(..., 99)
    exitCode    \* value main returns; -1 while running

tocVars == <<tpc, tText, tPos, tEntries, tLast, tResult>>
sanVars == <<spc, sTitle, sMaxLen, sResult>>
mainVars == <<pc, args, totalPages, outputDir, tocFound, toc, chunkSize,
              numChunks, loopIdx, attempts, created, fellBack, exitCode>>
vars == <<tocVars, sanVars, mainVars>>

-----------------------------------------------------------------------------
(* Characters and strings *)

Space == {" ", "\t"}
Digits == {"0", "1", "2", "3", "4", "5", "6", "7", "8", "9"}
Dot == {"."}

Min(S) == CHOOSE x \in S : \A y \in S : x <= y
Max(S) == CHOOSE x \in S : \A y \in S : y <= x

DigitVal(c) ==
    CASE c = "0" -> 0 [] c = "1" -> 1 [] c = "2" -> 2 [] c = "3" -> 3
      [] c = "4" -> 4 [] c = "5" -> 5 [] c = "6" -> 6 [] c = "7" -> 7
      [] c = "8" -> 8 [] c = "9" -> 9

\* int(page) for a run of decimal digits
RECURSIVE ToInt(_)
ToInt(s) ==
    IF s = <<>> THEN 0
    ELSE 10 * ToInt(SubSeq(s, 1, Len(s) - 1)) + DigitVal(s[Len(s)])

\* str.strip()
Strip(s) ==
    LET keep == {i \in 1..Len(s) : s[i] \notin Space}
    IN  IF keep = {} THEN <<>> ELSE SubSeq(s, Min(keep), Max(keep))

\* str.lower() on the letters of the indicator keywords
LowerChar(c) ==
    CASE c = "A" -> "a" [] c = "B" -> "b" [] c = "C" -> "c" [] c = "D" -> "d"
      [] c = "E" -> "e" [] c = "F" -> "f" [] c = "H" -> "h" [] c = "I" -> "i"
      [] c = "L" -> "l" [] c = "N" -> "n" [] c = "O" -> "o" [] c = "P" -> "p"
      [] c = "R" -> "r" [] c = "S" -> "s" [] c = "T" -> "t" [] c = "X" -> "x"
      [] OTHER -> c
Lower(s) == [i \in 1..Len(s) |-> LowerChar(s[i])]

\* needle in hay
Contains(hay, needle) ==
    \E i \in 1..(Len(hay) - Len(needle) + 1) :
        SubSeq(hay, i, i + Len(needle) - 1) = needle

\* first index >= j of s whose character is not in S (Len(s) + 1 when none):
\* where a greedy run of S characters that starts at j stops
RECURSIVE Skip(_, _, _)
Skip(s, j, S) == IF j > Len(s) \/ s[j] \notin S THEN j ELSE Skip(s, j + 1, S)

DigitChar(n) == CHOOSE c \in Digits : DigitVal(c) = n

\* str(n) for n >= 0
RECURSIVE IntToStr(_)
IntToStr(n) ==
    IF n < 10 THEN <<DigitChar(n)>>
    ELSE IntToStr(n \div 10) \o <<DigitChar(n % 10)>>

\* f"{n:03d}"
Pad3(n) ==
    LET d == IntToStr(n)
    IN  IF Len(d) >= 3 THEN d ELSE [i \in 1..(3 - Len(d)) |-> "0"] \o d

\* f"--- Page {page_num + 1} ---"
PageMarker(n) ==
    <<"-", "-", "-", " ", "P", "a", "g", "e", " ">> \o IntToStr(n)
        \o <<" ", "-", "-", "-">>

-----------------------------------------------------------------------------
(* Bounds and inputs *)

MaxTextLines == 3
MaxTitleLen == 5
MaxMaxLength == 3
MaxPages == 4
MaxTocPage == 5
MaxTocLines == 3
MaxChunkSize == 3

SeqsUpTo(S, n) == UNION {[1..k -> S] : k \in 0..n}

\* "Intro .. 3"
LineDotLeader ==
    <<"I", "n", "t", "r", "o", " ", ".", ".", " ", "3">>
\* "Basics 3"
LineTrailing ==
    <<"B", "a", "s", "i", "c", "s", " ", "3">>
\* "  Intro .. 3  "
LinePadded ==
    <<" ", " ", "I", "n", "t", "r", "o", " ", ".", ".", " ", "3", " ", " ">>
\* "Intro .. 0 7"
LineZeroThenPage ==
    <<"I", "n", "t", "r", "o", " ", ".", ".", " ", "0", " ", "7">>
\* "Intro .. 10001"
LineTooLarge ==
    <<"I", "n", "t", "r", "o", " ", ".", ".", " ", "1", "0", "0", "0", "1">>
\* "Intro .. 10000"
LineLargest ==
    <<"I", "n", "t", "r", "o", " ", ".", ".", " ", "1", "0", "0", "0", "0">>
\* "Chapter 1: Intro 5 pp"
LineChapter ==
    <<"C", "h", "a", "p", "t", "e", "r", " ", "1", ":", " ",
      "I", "n", "t", "r", "o", " ", "5", " ", "p", "p">>
\* "1 a 0 1.1 b 5 x"
LineSection ==
    <<"1", " ", "a", " ", "0", " ", "1", ".", "1", " ", "b", " ", "5", " ", "x">>
\* "2 Basics 1 x"
LineNumbered ==
    <<"2", " ", "B", "a", "s", "i", "c", "s", " ", "1", " ", "x">>
\* "Index"
LineKeyword ==
    <<"I", "n", "d", "e", "x">>
\* "a 1"
LineShort ==
    <<"a", " ", "1">>

TextLines ==
    {LineDotLeader, LineTrailing, LinePadded, LineZeroThenPage, LineTooLarge,
     LineLargest, LineChapter, LineSection, LineNumbered, LineKeyword,
     LineShort, <<>>}

\* characters of the titles handed to sanitize_filename
TitleChars == {"a", " ", ".", ":"}

TocTitles == {"A", "B"}
\* "A .. 3": a dot-leader line
DocLine(t, p) == <<t, " ", ".", ".", " ", DigitChar(p)>>
DocLines == {DocLine(t, p) : t \in TocTitles, p \in 1..MaxTocPage}
\* "Lorem"
BodyLine == <<"L", "o", "r", "e", "m">>

\* text of the first page: with or without a keyword line, then TOC lines
FrontTexts ==
    {head \o body : head \in {<<>>, <<LineKeyword>>},
                    body \in SeqsUpTo(DocLines, MaxTocLines)}
PageText(lines) == IF lines = <<>> THEN << <<>> >> ELSE lines
DocPages(front, n) ==
    [k \in 1..n |-> IF k = 1 THEN PageText(front) ELSE <<BodyLine>>]

\* every line a text of these inputs can hold
KnownLines ==
    TextLines \cup DocLines \cup {BodyLine}
        \cup {PageMarker(n) : n \in 1..MaxPages}

-----------------------------------------------------------------------------
(* self.toc_patterns under re.search: leftmost start, lazy groups shortest  *)
(* first, greedy runs longest first.  Each operator returns match.groups()   *)
(* as a sequence of strings, or NoMatch.                                     *)

NoMatch == <<>>
NumPatterns == 5
MinPage == 1
MaxPage == 10000

\* \s+\.{2,}\s*(\d+) matches at j
DotLeaderAt(s, j) ==
    LET a == Skip(s, j, Space)
        b == Skip(s, a, Dot)
        c == Skip(s, b, Space)
    IN  a > j /\ b - a >= 2 /\ c <= Len(s) /\ s[c] \in Digits
DotLeaderPage(s, j) ==
    LET c == Skip(s, Skip(s, Skip(s, j, Space), Dot), Space)
    IN  SubSeq(s, c, Skip(s, c, Digits) - 1)

\* \s+(\d+)$ matches at j
TrailingPageAt(s, j) ==
    LET a == Skip(s, j, Space)
        b == Skip(s, a, Digits)
    IN  a > j /\ b > a /\ b = Len(s) + 1

\* \s+(\d+) matches at j
PageAt(s, j) ==
    LET a == Skip(s, j, Space)
    IN  a > j /\ a <= Len(s) /\ s[a] \in Digits
PageOf(s, j) ==
    LET a == Skip(s, j, Space)
    IN  SubSeq(s, a, Skip(s, a, Digits) - 1)

\* r'(.+?)\s+\.{2,}\s*(\d+)'
Pattern1(s) ==
    LET E == {e \in 1..Len(s) : DotLeaderAt(s, e + 1)}
    IN  IF E = {} THEN NoMatch
        ELSE <<SubSeq(s, 1, Min(E)), DotLeaderPage(s, Min(E) + 1)>>

\* r'(.+?)\s+(\d+)$'
Pattern2(s) ==
    LET E == {e \in 1..Len(s) : TrailingPageAt(s, e + 1)}
    IN  IF E = {} THEN NoMatch
        ELSE <<SubSeq(s, 1, Min(E)), PageOf(s, Min(E) + 1)>>

\* (.+?)\s+(\d+) after a greedy separator run: the title starts at some t in
\* first..last, the largest t that lets the rest match (the separator gives
\* back as little as it must), and is as short as the rest allows
TitleStarts(s, first, last) ==
    {t \in first..last : \E e \in t..Len(s) : PageAt(s, e + 1)}
TitleAndPage(s, first, last) ==
    LET t == Max(TitleStarts(s, first, last))
        e == Min({x \in t..Len(s) : PageAt(s, x + 1)})
    IN  <<SubSeq(s, t, e), PageOf(s, e + 1)>>

\* end of (\d+\.?\d*) or (\d+\.\d+) started at j and followed by \s; 0 if none
NumberEnd(s, j, needFraction) ==
    IF ~(j <= Len(s) /\ s[j] \in Digits) THEN 0
    ELSE LET a == Skip(s, j, Digits)
         IN  IF a <= Len(s) /\ s[a] = "."
             THEN LET b == Skip(s, a + 1, Digits)
                  IN  IF needFraction /\ b = a + 1 THEN 0
                      ELSE IF b <= Len(s) /\ s[b] \in Space THEN b - 1
                      ELSE 0
             ELSE IF needFraction THEN 0
             ELSE IF a <= Len(s) /\ s[a] \in Space THEN a - 1
             ELSE 0

NumberedStarts(s, needFraction) ==
    {j \in 1..Len(s) :
        LET e0 == NumberEnd(s, j, needFraction)
        IN  e0 > 0 /\ TitleStarts(s, e0 + 2, Skip(s, e0 + 1, Space)) # {}}
Numbered(s, needFraction) ==
    IF NumberedStarts(s, needFraction) = {} THEN NoMatch
    ELSE LET j == Min(NumberedStarts(s, needFraction))
             e0 == NumberEnd(s, j, needFraction)
         IN  <<SubSeq(s, j, e0)>>
                 \o TitleAndPage(s, e0 + 2, Skip(s, e0 + 1, Space))

\* r'(\d+\.?\d*)\s+(.+?)\s+(\d+)'
Pattern3(s) == Numbered(s, FALSE)

\* r'Chapter\s+(\d+)[:\s]+(.+?)\s+(\d+)'
ChapterWord == <<"C", "h", "a", "p", "t", "e", "r">>
ChapterAt(s, j) ==
    /\ j + 6 <= Len(s)
    /\ SubSeq(s, j, j + 6) = ChapterWord
    /\ LET a == Skip(s, j + 7, Space)
           b == Skip(s, a, Digits)
           c == Skip(s, b, Space \cup {":"})
       IN  a > j + 7 /\ b > a /\ c > b /\ TitleStarts(s, b + 1, c) # {}
Pattern4(s) ==
    LET J == {j \in 1..Len(s) : ChapterAt(s, j)}
    IN  IF J = {} THEN NoMatch
        ELSE LET a == Skip(s, Min(J) + 7, Space)
                 b == Skip(s, a, Digits)
                 c == Skip(s, b, Space \cup {":"})
             IN  <<SubSeq(s, a, b - 1)>> \o TitleAndPage(s, b + 1, c)

\* r'(\d+\.\d+)\s+(.+?)\s+(\d+)'
Pattern5(s) == Numbered(s, TRUE)

\* re.search(self.toc_patterns[k - 1], line)
Search(k, s) ==
    CASE k = 1 -> Pattern1(s)
      [] k = 2 -> Pattern2(s)
      [] k = 3 -> Pattern3(s)
      [] k = 4 -> Pattern4(s)
      [] k = 5 -> Pattern5(s)

-----------------------------------------------------------------------------
(* extract_toc_from_text *)

MinLineLen == 5

Entry(t, p) == [title |-> t, page |-> p]

\* int(page) of the last capture group
MatchPage(g) == ToInt(g[Len(g)])
\* title.strip(), or f"{num} {title}".strip() for three groups
MatchTitle(g) ==
    IF Len(g) = 2 THEN Strip(g[1]) ELSE Strip(g[1] \o <<" ">> \o g[2])

\* 1 <= page_num <= 10000
PageInRange(page_num) == MinPage <= page_num /\ page_num <= MaxPage

\* the pattern loop as the specification words it: a match whose page is out
\* of range ends the work on the line
RECURSIVE TryPatternsStopAtBadPage(_, _, _)
TryPatternsStopAtBadPage(line, k, tried) ==
    IF k > NumPatterns
    THEN [line |-> line, looped |-> TRUE, tried |-> tried, entry |-> <<>>]
    ELSE LET g == Search(k, line)
         IN  IF g = NoMatch
             THEN TryPatternsStopAtBadPage(line, k + 1, Append(tried, k))
             ELSE IF PageInRange(MatchPage(g))
             THEN [line |-> line, looped |-> TRUE, tried |-> Append(tried, k),
                   entry |-> <<Entry(MatchTitle(g), MatchPage(g))>>]
             ELSE [line |-> line, looped |-> TRUE, tried |-> Append(tried, k),
                   entry |-> <<>>]

\* for pattern in self.toc_patterns, from pattern k on: the patterns tried
\* and the entry appended, if any.  Only an appended entry breaks the loop.
RECURSIVE TryPatterns(_, _, _)
TryPatterns(line, k, tried) ==
    IF k > NumPatterns
    THEN [line |-> line, looped |-> TRUE, tried |-> tried, entry |-> <<>>]
    ELSE LET g == Search(k, line)
         IN  IF g = NoMatch
             THEN TryPatterns(line, k + 1, Append(tried, k))
             ELSE IF PageInRange(MatchPage(g))
             THEN [line |-> line, looped |-> TRUE, tried |-> Append(tried, k),
                   entry |-> <<Entry(MatchTitle(g), MatchPage(g))>>]
             ELSE TryPatterns(line, k + 1, Append(tried, k))

\* the body of `for line in lines` on one raw line
MatchLine(raw) ==
    LET line == Strip(raw)
    IN  IF line = <<>> \/ Len(line) < MinLineLen
        THEN [line |-> line, looped |-> FALSE, tried |-> <<>>, entry |-> <<>>]
        ELSE TryPatterns(line, 1, <<>>)

\* MatchLine, looked up for the lines of the inputs
LineScans == [raw \in KnownLines |-> MatchLine(raw)]
ScanOf(raw) == IF raw \in DOMAIN LineScans THEN LineScans[raw] ELSE MatchLine(raw)

\* toc_entries after the first n lines
RECURSIVE CollectEntries(_, _)
CollectEntries(lines, n) ==
    IF n = 0 THEN <<>>
    ELSE CollectEntries(lines, n - 1) \o ScanOf(lines[n]).entry

\* the seen-set loop
RECURSIVE UniqueFrom(_, _, _)
UniqueFrom(entries, i, seen) ==
    IF i > Len(entries) THEN <<>>
    ELSE IF entries[i] \in seen THEN UniqueFrom(entries, i + 1, seen)
    ELSE <<entries[i]>> \o UniqueFrom(entries, i + 1, seen \cup {entries[i]})
UniqueEntries(entries) == UniqueFrom(entries, 1, {})

\* an insertion that puts the new entry in front of its equals
InsertBeforeEquals(sorted, e) ==
    LET n == Cardinality({i \in 1..Len(sorted) : sorted[i].page < e.page})
    IN  SubSeq(sorted, 1, n) \o <<e>> \o SubSeq(sorted, n + 1, Len(sorted))
\* e behind every entry of sorted whose key is not larger
InsertByPage(sorted, e) ==
    LET n == Cardinality({i \in 1..Len(sorted) : sorted[i].page <= e.page})
    IN  SubSeq(sorted, 1, n) \o <<e>> \o SubSeq(sorted, n + 1, Len(sorted))

\* sorted(unique_entries, key=lambda x: x[1]): Python's sort is stable
RECURSIVE SortByPage(_)
SortByPage(entries) ==
    IF entries = <<>> THEN <<>>
    ELSE InsertByPage(SortByPage(SubSeq(entries, 1, Len(entries) - 1)),
                      entries[Len(entries)])

ExtractTocFromText(lines) ==
    SortByPage(UniqueEntries(CollectEntries(lines, Len(lines))))

NotScanned == [line |-> <<>>, looped |-> FALSE, tried |-> <<>>, entry |-> <<>>]

TocIdle ==
    /\ tpc = "idle" /\ tText = <<>> /\ tPos = 0 /\ tEntries = <<>>
    /\ tLast = NotScanned /\ tResult = <<>>
SanIdle ==
    /\ spc = "idle" /\ sTitle = <<>> /\ sMaxLen = 0 /\ sResult = <<>>
MainIdle ==
    /\ pc = "idle" /\ args = [mode |-> "none"] /\ totalPages = 0
    /\ outputDir = <<>> /\ tocFound = FALSE /\ toc = <<>> /\ chunkSize = 0
    /\ numChunks = 0 /\ loopIdx = 0 /\ attempts = <<>> /\ created = <<>>
    /\ fellBack = FALSE /\ exitCode = -1

-----------------------------------------------------------------------------
(* SpecToc: extract_toc_from_text(text) *)

TocInit ==
    /\ tpc = "scan"
    /\ tText \in SeqsUpTo(TextLines, MaxTextLines)
    /\ tPos = 0 /\ tEntries = <<>> /\ tLast = NotScanned /\ tResult = <<>>
    /\ SanIdle /\ MainIdle

\* one iteration of `for line in lines`
ScanLine ==
    /\ tpc = "scan" /\ tPos < Len(tText)
    /\ tLast' = MatchLine(tText[tPos + 1])
    /\ tEntries' = tEntries \o tLast'.entry
    /\ tPos' = tPos + 1
    /\ UNCHANGED <<tpc, tText, tResult, sanVars, mainVars>>

\* the de-duplication and the return
ReturnToc ==
    /\ tpc = "scan" /\ tPos = Len(tText)
    /\ tResult' = SortByPage(UniqueEntries(tEntries))
    /\ tpc' = "done"
    /\ UNCHANGED <<tText, tPos, tEntries, tLast, sanVars, mainVars>>

TocNext == ScanLine \/ ReturnToc
SpecToc == TocInit /\ [][TocNext]_vars

-----------------------------------------------------------------------------
(* Claims about extract_toc_from_text *)

\* match.groups() of every pattern on the line consumed last
LastGroups == [k \in 1..NumPatterns |-> Search(k, tLast.line)]
Tried(k) == \E i \in 1..Len(tLast.tried) : tLast.tried[i] = k
PageOk(g) == 1 <= MatchPage(g) /\ MatchPage(g) <= 10000

\* C7 as stated: on every line the pattern loop ran on, a tried pattern that
\* matches with a page outside [1, 10000] is the last pattern tried on the
\* line, and the line contributes no TOC entry.
C7_StopsAtBadPage ==
    tLast.looped =>
        LET g == LastGroups
        IN  \A k \in 1..NumPatterns :
                (Tried(k) /\ g[k] # NoMatch /\ ~PageOk(g[k])) =>
                    /\ tLast.entry = <<>>
                    /\ \A j \in 1..NumPatterns : Tried(j) => j <= k

\* C7 amended: a tried pattern that matches with a page outside [1, 10000]
\* contributes nothing itself and the loop goes on to the next pattern; the
\* line contributes the candidate of the first pattern, in list order, whose
\* match has a page in [1, 10000], and nothing only when there is no such
\* pattern; every collected entry has a page in [1, 10000].
C7_BadPageSkipsPattern ==
    /\ \A i \in 1..Len(tEntries) :
           1 <= tEntries[i].page /\ tEntries[i].page <= 10000
    /\ tLast.looped =>
        LET g == LastGroups
            good == {k \in 1..NumPatterns : g[k] # NoMatch /\ PageOk(g[k])}
        IN  /\ \A k \in 1..NumPatterns :
                   (Tried(k) /\ g[k] # NoMatch /\ ~PageOk(g[k])) =>
                       (k < NumPatterns => Tried(k + 1))
            /\ IF good = {}
               THEN /\ tLast.entry = <<>>
                    /\ tLast.tried = [i \in 1..NumPatterns |-> i]
               ELSE /\ tLast.entry =
                          <<Entry(MatchTitle(g[Min(good)]), MatchPage(g[Min(good)]))>>
                    /\ tLast.tried = [i \in 1..Min(good) |-> i]

\* a line where a pattern matched with a bad page and a later pattern gave
\* the entry
C7_Witness ==
    /\ tLast.looped
    /\ tLast.entry # <<>>
    /\ LET g == LastGroups
       IN  \E k \in 1..NumPatterns :
               Tried(k) /\ g[k] # NoMatch /\ ~PageOk(g[k])

FirstSeen(e) == Min({i \in 1..Len(tEntries) : tEntries[i] = e})

\* C8: the returned list holds each distinct (title, page) pair of the
\* accepted candidates exactly once, is ascending by page, and entries with
\* the same page are in first-seen order.
C8_UniqueStableSorted ==
    tpc = "done" =>
        /\ {tResult[i] : i \in 1..Len(tResult)}
               = {tEntries[i] : i \in 1..Len(tEntries)}
        /\ \A i, j \in 1..Len(tResult) :
               i < j =>
                   /\ tResult[i] # tResult[j]
                   /\ tResult[i].page <= tResult[j].page
                   /\ tResult[i].page = tResult[j].page =>
                          FirstSeen(tResult[i]) < FirstSeen(tResult[j])

\* a duplicate was removed and two titles share a page
C8_Witness ==
    /\ tpc = "done"
    /\ Len(tResult) < Len(tEntries)
    /\ \E i, j \in 1..Len(tResult) :
           i < j /\ tResult[i].page = tResult[j].page

-----------------------------------------------------------------------------
(* sanitize_filename *)

DefaultMaxLength == 50

Illegal == {"<", ">", ":", "\"", "/", "\\", "|", "?", "*"}

\* re.sub(r'[<>:"/\\|?*]', '_', title)
ReplaceIllegal(s) == [i \in 1..Len(s) |-> IF s[i] \in Illegal THEN "_" ELSE s[i]]

\* re.sub(r'\s+', ' ', s)
RECURSIVE CollapseFrom(_, _)
CollapseFrom(s, i) ==
    IF i > Len(s) THEN <<>>
    ELSE IF s[i] \in Space THEN <<" ">> \o CollapseFrom(s, Skip(s, i, Space))
    ELSE <<s[i]>> \o CollapseFrom(s, i + 1)
CollapseSpace(s) == CollapseFrom(s, 1)

\* s.replace('..', '.'): non-overlapping occurrences, left to right
RECURSIVE ReplaceDotsFrom(_, _)
ReplaceDotsFrom(s, i) ==
    IF i > Len(s) THEN <<>>
    ELSE IF i < Len(s) /\ s[i] = "." /\ s[i + 1] = "."
    THEN <<".">> \o ReplaceDotsFrom(s, i + 2)
    ELSE <<s[i]>> \o ReplaceDotsFrom(s, i + 1)
ReplaceDots(s) == ReplaceDotsFrom(s, 1)

\* safe_title before the length limit
CleanTitle(title) == ReplaceDots(Strip(CollapseSpace(ReplaceIllegal(title))))

\* s.rsplit(' ', 1)[0]
RECURSIVE BeforeLastSpace(_, _)
BeforeLastSpace(s, i) ==
    IF i = 0 THEN s
    ELSE IF s[i] = " " THEN SubSeq(s, 1, i - 1)
    ELSE BeforeLastSpace(s, i - 1)

\* a limit that keeps the cut word
LimitLengthKeepWord(safe_title, max_length) ==
    IF Len(safe_title) > max_length
    THEN SubSeq(safe_title, 1, max_length)
    ELSE safe_title
\* if len(safe_title) > max_length:
\*     safe_title = safe_title[:max_length].rsplit(' ', 1)[0]
LimitLength(safe_title, max_length) ==
    IF Len(safe_title) > max_length
    THEN LET prefix == SubSeq(safe_title, 1, max_length)
         IN  BeforeLastSpace(prefix, Len(prefix))
    ELSE safe_title

SanitizeFilename(title, max_length) == LimitLength(CleanTitle(title), max_length)

-----------------------------------------------------------------------------
(* SpecSan: sanitize_filename(title, max_length) *)

SanInit ==
    /\ spc = "call"
    /\ sTitle \in SeqsUpTo(TitleChars, MaxTitleLen)
    /\ sMaxLen \in 1..MaxMaxLength
    /\ sResult = <<>>
    /\ TocIdle /\ MainIdle

Sanitize ==
    /\ spc = "call"
    /\ sResult' = SanitizeFilename(sTitle, sMaxLen)
    /\ spc' = "done"
    /\ UNCHANGED <<sTitle, sMaxLen, tocVars, mainVars>>

SanNext == Sanitize
SpecSan == SanInit /\ [][SanNext]_vars

\* C9: the result has at most maxLength characters; when the cleaned title
\* is longer than maxLength the result is the maxLength-character prefix up
\* to just before its last space, or the whole prefix when it has no space.
C9_Truncation ==
    spc = "done" =>
        /\ Len(sResult) <= sMaxLen
        /\ Len(CleanTitle(sTitle)) > sMaxLen =>
               LET prefix == SubSeq(CleanTitle(sTitle), 1, sMaxLen)
                   spaces == {i \in 1..sMaxLen : prefix[i] = " "}
               IN  IF spaces = {} THEN sResult = prefix
                   ELSE sResult = SubSeq(prefix, 1, Max(spaces) - 1)

\* a title cut inside a word, after a space
C9_Witness ==
    /\ spc = "done"
    /\ Len(CleanTitle(sTitle)) > sMaxLen
    /\ \E i \in 1..sMaxLen : CleanTitle(sTitle)[i] = " "
    /\ CleanTitle(sTitle)[sMaxLen] # " "
    /\ CleanTitle(sTitle)[sMaxLen + 1] # " "
    /\ sResult # <<>>

-----------------------------------------------------------------------------
(* extract_toc_from_pdf *)

MaxSearchPages == 25
DefaultChunkSize == 99

\* self.toc_indicators
TocIndicators ==
    {<<"t", "a", "b", "l", "e", " ", "o", "f", " ",
       "c", "o", "n", "t", "e", "n", "t", "s">>,
     <<"c", "o", "n", "t", "e", "n", "t", "s">>,
     <<"i", "n", "d", "e", "x">>,
     <<"c", "h", "a", "p", "t", "e", "r">>}

\* toc_text.split('\n') after the first n pages: every page whose text could
\* be extracted adds "\n--- Page n ---\n" + page_text + "\n".  A page text
\* is the sequence of its lines.
RECURSIVE TocTextLines(_, _, _)
TocTextLines(pages, failing, n) ==
    IF n = 0 THEN << <<>> >>
    ELSE TocTextLines(pages, failing, n - 1)
            \o (IF n \in failing THEN <<>>
                ELSE <<PageMarker(n)>> \o pages[n] \o << <<>> >>)

\* an indicator in line.lower()
LineHasIndicator(line) == \E ind \in TocIndicators : Contains(Lower(line), ind)
LineIndicators == [raw \in KnownLines |-> LineHasIndicator(raw)]

\* any(indicator in toc_text.lower() for indicator in self.toc_indicators);
\* no indicator holds a line break
HasIndicator(lines) ==
    \E i \in 1..Len(lines) :
        IF lines[i] \in DOMAIN LineIndicators THEN LineIndicators[lines[i]]
        ELSE LineHasIndicator(lines[i])

\* extract_toc_from_pdf: pages are the page texts, failing the pages whose
\* extract_text() raises
ExtractTocFromPdf(pages, failing) ==
    LET search_pages ==
            IF MaxSearchPages <= Len(pages) THEN MaxSearchPages ELSE Len(pages)
        lines == TocTextLines(pages, failing, search_pages)
    IN  IF HasIndicator(lines)
        THEN [found |-> TRUE, entries |-> ExtractTocFromText(lines)]
        ELSE [found |-> FALSE, entries |-> <<>>]

-----------------------------------------------------------------------------
(* split_by_chapters and split_by_pages *)

\* input_path.parent, input_path.stem and the directory given with --output
InputParent == <<"in">>
Stem == <<"b", "o", "o", "k">>
OutDir == <<"out">>
\* f"{input_path.stem}_chapters", f"{input_path.stem}_pages"
ChaptersName == Stem \o <<"_", "c", "h", "a", "p", "t", "e", "r", "s">>
PagesName == Stem \o <<"_", "p", "a", "g", "e", "s">>
\* f"{base_name}_chunk_"
ChunkPrefix == Stem \o <<"_", "c", "h", "u", "n", "k", "_">>

\* An optional argument is <<>> (None) or <<value>>.

\* output_dir of split_by_chapters
ChaptersDir(output_dir) ==
    IF output_dir = <<>> THEN Append(InputParent, ChaptersName)
    ELSE Append(output_dir[1], ChaptersName)

\* a split_by_pages that adds its subfolder to a given directory too
PagesDirWithSubfolder(output_dir) ==
    IF output_dir = <<>> THEN Append(InputParent, PagesName)
    ELSE Append(output_dir[1], PagesName)
\* output_dir of split_by_pages
PagesDir(output_dir) ==
    IF output_dir = <<>> THEN Append(InputParent, PagesName)
    ELSE output_dir[1]

\* a planner that takes the next chapter's page as the last page
EndPageNextStart(entries, i, total_pages) ==
    IF i + 1 < Len(entries) THEN entries[i + 2].page ELSE total_pages
\* end_page of entry i (0-based; entries[i + 1] is toc_entries[i])
EndPage(entries, i, total_pages) ==
    IF i + 1 < Len(entries) THEN entries[i + 2].page - 1 ELSE total_pages

\* a start index that forgets the 0-indexing
StartPageIdxOneBased(start_page) == IF start_page > 0 THEN start_page ELSE 0
\* max(0, start_page - 1)
StartPageIdx(start_page) == IF start_page - 1 > 0 THEN start_page - 1 ELSE 0

\* min(total_pages, end_page)
EndPageIdx(total_pages, end_page) ==
    IF total_pages <= end_page THEN total_pages ELSE end_page

\* the loop index itself
ChunkNumberZeroBased(i) == i
\* i + 1, chunk_num + 1
ChunkNumber(i) == i + 1

\* a chunk count that rounds down
NumChunksFloor(total_pages, chunk_size) == total_pages \div chunk_size
\* (total_pages + chunk_size - 1) // chunk_size
NumChunks(total_pages, chunk_size) ==
    (total_pages + chunk_size - 1) \div chunk_size

\* a caller that goes on with an empty list
AfterTocNoFallback(toc_entries) == "chapters"
\* if not toc_entries: return self.split_by_pages(input_path, output_dir, 99)
AfterToc(toc_entries) == IF toc_entries = <<>> THEN "fallback" ELSE "chapters"

\* what happens to a chunk once its PdfWriter exists: the pages, the outline
\* item or the metadata cannot be added; open() or write() raises; or the
\* file is written
Outcomes == {"assemblyFailed", "writeFailed", "written"}

-----------------------------------------------------------------------------
(* Spec: one run of main() *)

Args ==
    {a \in [mode : {"chapters", "pages"},
            output : {<<>>, <<OutDir>>},
            size : 1..MaxChunkSize \cup {DefaultChunkSize},
            exists : BOOLEAN,
            readable : BOOLEAN,
            pages : 0..MaxPages] :
        /\ a.mode = "chapters" => a.size = DefaultChunkSize
        /\ ~a.exists => ~a.readable
        /\ ~a.readable => a.pages = 0}

Init ==
    /\ pc = "main"
    /\ args \in Args
    /\ totalPages = 0 /\ outputDir = <<>> /\ tocFound = FALSE /\ toc = <<>>
    /\ chunkSize = 0 /\ numChunks = 0 /\ loopIdx = 0 /\ attempts = <<>>
    /\ created = <<>> /\ fellBack = FALSE /\ exitCode = -1
    /\ TocIdle /\ SanIdle

\* main calls split_by_chapters, which runs up to the opened reader
ChaptersEnter ==
    /\ pc = "main" /\ args.mode = "chapters"
    /\ IF ~args.exists
       THEN /\ pc' = "exit" /\ exitCode' = 1
            /\ UNCHANGED <<outputDir, totalPages>>
       ELSE /\ outputDir' = ChaptersDir(args.output)
            /\ IF ~args.readable
               THEN pc' = "exit" /\ exitCode' = 1 /\ UNCHANGED totalPages
               ELSE pc' = "toc" /\ totalPages' = args.pages /\ UNCHANGED exitCode
    /\ UNCHANGED <<args, tocFound, toc, chunkSize, numChunks, loopIdx,
                   attempts, created, fellBack, tocVars, sanVars>>

\* toc_entries = self.extract_toc_from_pdf(input_path)
ExtractToc ==
    /\ pc = "toc"
    /\ \E front \in FrontTexts :
       \E failing \in SUBSET (1..(IF totalPages > 0 THEN 1 ELSE 0)) :
           LET r == ExtractTocFromPdf(DocPages(front, totalPages), failing)
           IN  /\ tocFound' = r.found
               /\ toc' = r.entries
               /\ pc' = AfterToc(r.entries)
    /\ UNCHANGED <<args, totalPages, outputDir, chunkSize, numChunks, loopIdx,
                   attempts, created, fellBack, exitCode, tocVars, sanVars>>

\* split_by_pages up to the chunk loop, for a file that exists and opens
PagesSetup(output_dir, chunk_size) ==
    /\ outputDir' = PagesDir(output_dir)
    /\ totalPages' = args.pages
    /\ chunkSize' = chunk_size
    /\ numChunks' = NumChunks(args.pages, chunk_size)
    /\ loopIdx' = 0
    /\ pc' = "pages"

\* return self.split_by_pages(input_path, output_dir, 99)
Fallback ==
    /\ pc = "fallback"
    /\ PagesSetup(<<outputDir>>, DefaultChunkSize)
    /\ fellBack' = TRUE
    /\ UNCHANGED <<args, tocFound, toc, attempts, created, exitCode,
                   tocVars, sanVars>>

\* main calls split_by_pages(args.input_pdf, args.output, args.size)
PagesEnter ==
    /\ pc = "main" /\ args.mode = "pages"
    /\ IF ~args.exists
       THEN /\ pc' = "exit" /\ exitCode' = 1
            /\ UNCHANGED <<outputDir, totalPages, chunkSize, numChunks, loopIdx>>
       ELSE IF ~args.readable
       THEN /\ outputDir' = PagesDir(args.output)
            /\ pc' = "exit" /\ exitCode' = 1
            /\ UNCHANGED <<totalPages, chunkSize, numChunks, loopIdx>>
       ELSE /\ PagesSetup(args.output, args.size)
            /\ UNCHANGED exitCode
    /\ UNCHANGED <<args, tocFound, toc, attempts, created, fellBack,
                   tocVars, sanVars>>

\* the chunk and the file of one loop iteration
Attempt(kind, i, title, start, end, outcome) ==
    [kind |-> kind, nnn |-> Pad3(ChunkNumber(i)), subject |-> ChunkNumber(i),
     title |-> title, start |-> start, end |-> end, outcome |-> outcome]
File(prefix, i, safe_title, start, end) ==
    [dir |-> outputDir, name |-> prefix \o Pad3(ChunkNumber(i)) \o safe_title,
     start |-> start, end |-> end]

\* what one iteration does once the writer is created: a failure of the
\* assembly leaves the loop and main returns 1, a failure of the write is
\* logged and the loop goes on
Emit(attempt, file) ==
    /\ attempts' = Append(attempts, attempt)
    /\ IF attempt.outcome = "assemblyFailed"
       THEN pc' = "exit" /\ exitCode' = 1 /\ UNCHANGED <<created, loopIdx>>
       ELSE /\ loopIdx' = loopIdx + 1
            /\ created' = IF attempt.outcome = "written"
                          THEN Append(created, file) ELSE created
            /\ UNCHANGED <<pc, exitCode>>

\* one iteration of `for i, (chapter_title, start_page) in enumerate(...)`
ChapterStep ==
    /\ pc = "chapters" /\ loopIdx < Len(toc)
    /\ LET chapter_title == toc[loopIdx + 1].title
           start_page_idx == StartPageIdx(toc[loopIdx + 1].page)
           end_page_idx ==
               EndPageIdx(totalPages, EndPage(toc, loopIdx, totalPages))
       IN  IF start_page_idx >= end_page_idx
           THEN /\ loopIdx' = loopIdx + 1
                /\ UNCHANGED <<pc, exitCode, attempts, created>>
           ELSE \E outcome \in Outcomes :
                    Emit(Attempt("chapter", loopIdx, chapter_title,
                                 start_page_idx, end_page_idx, outcome),
                         File(<<>>, loopIdx,
                              <<"_">> \o SanitizeFilename(chapter_title,
                                                          DefaultMaxLength),
                              start_page_idx, end_page_idx))
    /\ UNCHANGED <<args, totalPages, outputDir, tocFound, toc, chunkSize,
                   numChunks, fellBack, tocVars, sanVars>>

\* one iteration of `for chunk_num in range(num_chunks)`
PageStep ==
    /\ pc = "pages" /\ loopIdx < numChunks
    /\ LET start_page == loopIdx * chunkSize
           end_page == EndPageIdx(totalPages, start_page + chunkSize)
       IN  \E outcome \in Outcomes :
               Emit(Attempt("page", loopIdx, <<>>, start_page, end_page, outcome),
                    File(ChunkPrefix, loopIdx, <<>>, start_page, end_page))
    /\ UNCHANGED <<args, totalPages, outputDir, tocFound, toc, chunkSize,
                   numChunks, fellBack, tocVars, sanVars>>

\* return chunks_created; main prints the count and returns 0
Return ==
    /\ \/ pc = "chapters" /\ loopIdx = Len(toc)
       \/ pc = "pages" /\ loopIdx >= numChunks
    /\ pc' = "exit" /\ exitCode' = 0
    /\ UNCHANGED <<args, totalPages, outputDir, tocFound, toc, chunkSize,
                   numChunks, loopIdx, attempts, created, fellBack,
                   tocVars, sanVars>>

Next ==
    \/ ChaptersEnter
    \/ ExtractToc
    \/ Fallback
    \/ PagesEnter
    \/ ChapterStep
    \/ PageStep
    \/ Return

Spec == Init /\ [][Next]_vars

-----------------------------------------------------------------------------
(* Claims about one run *)

ChapterAttempts == {k \in 1..Len(attempts) : attempts[k].kind = "chapter"}
Written == {k \in 1..Len(attempts) : attempts[k].outcome = "written"}
InputOk == args.exists /\ args.readable

\* the range the specification plans for TOC entry j (1-based) is empty
Degenerate(j) ==
    LET raw == IF j < Len(toc) THEN toc[j + 1].page - 1 ELSE totalPages
        endIdx == IF totalPages <= raw THEN totalPages ELSE raw
    IN  toc[j].page - 1 >= endIdx

\* C1: every emitted TOC-driven chunk has 0 <= startPage < endPage <= T, the
\* emitted ranges are contiguous in emission order (each endPage is the next
\* startPage), and an entry whose range has startIdx >= endIdx gets no
\* chunk and no output file.
C1_TocRanges ==
    /\ \A k \in ChapterAttempts :
           /\ 0 <= attempts[k].start
           /\ attempts[k].start < attempts[k].end
           /\ attempts[k].end <= totalPages
           /\ k < Len(attempts) => attempts[k].end = attempts[k + 1].start
    /\ (pc \in {"chapters", "exit"} /\ ~fellBack) =>
           /\ \A f \in 1..Len(created) : created[f].start < created[f].end
           /\ \A j \in 1..Len(toc) :
                  Degenerate(j) =>
                      ~\E k \in ChapterAttempts :
                            /\ attempts[k].title = toc[j].title
                            /\ attempts[k].start = toc[j].page - 1

\* a finished TOC-driven run with two chunks and a dropped entry
C1_Witness ==
    /\ pc = "exit" /\ exitCode = 0 /\ ~fellBack
    /\ Len(toc) = 3
    /\ Cardinality(ChapterAttempts) = 2
    /\ \E j \in 1..Len(toc) : Degenerate(j)

\* C2 as stated: the k-th emitted chunk carries k in its filename prefix NNN
\* and in its Subject, however many entries were dropped.
C2_NumberedByEmission ==
    \A k \in ChapterAttempts :
        ToInt(attempts[k].nnn) = k /\ attempts[k].subject = k

\* C2 amended: chunks are emitted in ascending page order and each carries,
\* in its filename prefix NNN and in its Subject, the 1-based position of its
\* entry in the sorted TOC list; the numbers increase strictly in emission
\* order and the k-th emitted chunk's number is at least k.
C2_NumberedByTocPosition ==
    \A k \in ChapterAttempts :
        LET n == ToInt(attempts[k].nnn)
        IN  /\ attempts[k].subject = n
            /\ n \in 1..Len(toc)
            /\ toc[n].title = attempts[k].title
            /\ toc[n].page - 1 = attempts[k].start
            /\ n >= k
            /\ k < Len(attempts) =>
                   /\ attempts[k].start < attempts[k + 1].start
                   /\ n < ToInt(attempts[k + 1].nnn)

\* a chunk emitted after a dropped entry: its number is ahead of its rank
C2_Witness ==
    \E k \in ChapterAttempts :
        /\ ToInt(attempts[k].nnn) > k
        /\ attempts[k].outcome = "written"

\* C3: split_by_pages plans ceil(T / S) chunks, chunk k (0-based) spans
\* [k*S, min((k+1)*S, T)), every chunk is non-empty, all but possibly the
\* last have S pages, and T = 0 gives no chunk.
C3_FixedSizeChunks ==
    (pc \in {"pages", "exit"} /\ chunkSize >= 1) =>
        /\ numChunks * chunkSize >= totalPages
        /\ numChunks >= 0
        /\ numChunks > 0 => (numChunks - 1) * chunkSize < totalPages
        /\ totalPages = 0 => numChunks = 0 /\ attempts = <<>>
        /\ Len(attempts) <= numChunks
        /\ (pc = "exit" /\ exitCode = 0) => Len(attempts) = numChunks
        /\ \A k \in 1..Len(attempts) :
               /\ attempts[k].kind = "page"
               /\ attempts[k].start = (k - 1) * chunkSize
               /\ attempts[k].end =
                      (IF k * chunkSize <= totalPages
                       THEN k * chunkSize ELSE totalPages)
               /\ attempts[k].start < attempts[k].end
               /\ k < numChunks => attempts[k].end - attempts[k].start = chunkSize

\* a finished pages run whose last chunk is short
C3_Witness ==
    /\ pc = "exit" /\ exitCode = 0 /\ args.mode = "pages"
    /\ Len(attempts) >= 2
    /\ attempts[Len(attempts)].end - attempts[Len(attempts)].start < chunkSize

LoopDone ==
    IF fellBack \/ args.mode = "pages" THEN loopIdx = numChunks
    ELSE loopIdx = Len(toc)

\* C4: when assembling or writing a chunk fails, the chunk is skipped, every
\* remaining chunk is still processed, the run ends with exit code 0 and the
\* reported count is the number of files written.
C4_ChunkFailureRecovered ==
    (pc = "exit" /\ InputOk) =>
        /\ exitCode = 0
        /\ LoopDone
        /\ Len(created) = Cardinality(Written)

\* the part of C4 the code keeps: a run in which no assembly fails ends
\* with exit code 0, all chunks processed and the written files counted
WriteFailureRecovered ==
    (pc = "exit" /\ InputOk
        /\ \A k \in 1..Len(attempts) : attempts[k].outcome # "assemblyFailed") =>
        /\ exitCode = 0
        /\ LoopDone
        /\ Len(created) = Cardinality(Written)

\* C5: in chapter mode, a document that opens and gives zero TOC entries is
\* split by split_by_pages with chunk size 99 over the whole document, whose
\* chunks are returned; the TOC-driven loop never runs on an empty list.
C5_FallbackToPages ==
    /\ pc = "chapters" => toc # <<>>
    /\ ~tocFound => toc = <<>>
    /\ (args.mode = "chapters" /\ InputOk /\ toc = <<>>
            /\ pc \in {"pages", "exit"}) =>
           /\ fellBack
           /\ chunkSize = 99
           /\ numChunks * 99 >= totalPages
           /\ numChunks > 0 => (numChunks - 1) * 99 < totalPages
           /\ \A k \in 1..Len(attempts) :
                  /\ attempts[k].kind = "page"
                  /\ attempts[k].start = (k - 1) * 99
                  /\ attempts[k].end =
                         (IF k * 99 <= totalPages THEN k * 99 ELSE totalPages)
           /\ (pc = "exit" /\ Written = 1..Len(attempts)) =>
                  /\ exitCode = 0
                  /\ Len(created) = numChunks
                  /\ \A f \in 1..Len(created) :
                         /\ created[f].start = attempts[f].start
                         /\ created[f].end = attempts[f].end

\* a document without any indicator keyword, split by the fallback
C5_Witness ==
    /\ args.mode = "chapters" /\ fellBack /\ ~tocFound
    /\ pc = "exit" /\ exitCode = 0
    /\ Len(created) = 1
    /\ created[1].start = 0 /\ created[1].end = totalPages

\* C6: with --output <dir>, the chunks go to <dir>/<base>_chapters in
\* chapters mode and to <dir>/<base>_pages in pages mode, never to <dir>.
C6_OutputSubfolder ==
    (args.output # <<>> /\ outputDir # <<>>) =>
        /\ outputDir = Append(args.output[1],
                              IF args.mode = "chapters" THEN ChaptersName
                              ELSE PagesName)
        /\ \A f \in 1..Len(created) : created[f].dir # args.output[1]

\* C6 amended: with --output <dir>, chapters mode writes its chunks, those
\* of the fallback included, to <dir>/<base>_chapters and never to <dir>;
\* pages mode writes its chunks directly to <dir>.
C6_OutputDirectory ==
    (args.output # <<>> /\ outputDir # <<>>) =>
        /\ outputDir = (IF args.mode = "chapters"
                        THEN Append(args.output[1], ChaptersName)
                        ELSE args.output[1])
        /\ \A f \in 1..Len(created) :
               /\ created[f].dir = outputDir
               /\ args.mode = "chapters" => created[f].dir # args.output[1]

\* a pages run with --output that wrote a chunk
C6_Witness ==
    /\ args.mode = "pages" /\ args.output # <<>>
    /\ pc = "exit" /\ exitCode = 0
    /\ created # <<>>
    /\ created[1].dir = args.output[1]

\* C10: for a non-empty TOC with first page p1 <= T and no failed chunk, the
\* files of a finished run hold every page of [p1 - 1, T) exactly once and
\* no page before p1 - 1.
C10_PageCoverage ==
    (pc = "exit" /\ exitCode = 0 /\ args.mode = "chapters" /\ ~fellBack
        /\ toc # <<>> /\ Written = 1..Len(attempts)) =>
        (toc[1].page <= totalPages =>
            \A p \in 0..(totalPages - 1) :
                Cardinality({f \in 1..Len(created) :
                                created[f].start <= p /\ p < created[f].end})
                    = (IF p >= toc[1].page - 1 THEN 1 ELSE 0))

\* a finished run whose TOC starts after page 1 and has a dropped entry
C10_Witness ==
    /\ pc = "exit" /\ exitCode = 0 /\ args.mode = "chapters" /\ ~fellBack
    /\ toc # <<>> /\ Written = 1..Len(attempts)
    /\ toc[1].page > 1 /\ toc[1].page <= totalPages
    /\ Len(created) >= 2
    /\ Len(toc) > Len(created)

====
